---- MODULE Spec2Model ----
(***************************************************************************)
(* A model of src/profile_creator.py: the profile wizard (create_profile), *)
(* its input acquirer (get_voice_input, get_text_input), the field         *)
(* validator (_validate_input), the record store (save_profile) and the    *)
(* entry point (main).                                                     *)
(*                                                                         *)
(* A Python str is a sequence of one-character strings: "Jo" is            *)
(* <<"J", "o">>.  A value of the record is tagged with its Python type, so *)
(* that None, a str, an int and a list are all comparable.                 *)
(***************************************************************************)
EXTENDS Integers, Sequences, FiniteSets, TLC

(***************************************************************************)
(* Characters and the str methods the program calls.                       *)
(***************************************************************************)

\* A character the language can write (Latin-1) stands for itself; a character
\* it cannot write is named by its code point, "U+0663" for ARABIC-INDIC DIGIT
\* THREE.  The classes below are those of Python over Latin-1 and over the
\* named characters that appear in them; no other character is in a string
\* of the model.

\* ASCII decimal digits: str.isdigit() is true, int() parses them, \d matches.
Digits == {"0", "1", "2", "3", "4", "5", "6", "7", "8", "9"}

\* ARABIC-INDIC DIGIT ZERO to NINE and FULLWIDTH DIGIT ZERO to NINE, in the
\* order of their values: decimal digits as well for isdigit(), int() and \d.
ArabicIndicDigits ==
    <<"U+0660", "U+0661", "U+0662", "U+0663", "U+0664", "U+0665", "U+0666",
      "U+0667", "U+0668", "U+0669">>

FullwidthDigits ==
    <<"U+FF10", "U+FF11", "U+FF12", "U+FF13", "U+FF14", "U+FF15", "U+FF16",
      "U+FF17", "U+FF18", "U+FF19">>

\* The characters of category Nd.
DecimalDigits ==
    Digits \cup {ArabicIndicDigits[i] : i \in 1..10} \cup {FullwidthDigits[i] : i \in 1..10}

\* SUPERSCRIPT TWO, THREE and ONE, CIRCLED DIGIT ONE to NINE: str.isdigit() is
\* true and \w matches, but int() raises ValueError and \d does not match.
SuperDigits ==
    {"²", "³", "¹", "U+2460", "U+2461", "U+2462", "U+2463", "U+2464",
     "U+2465", "U+2466", "U+2467", "U+2468"}

\* The characters str.strip() and str.split() take for whitespace
\* (str.isspace): the ASCII ones, NEXT LINE, NO-BREAK SPACE and the spaces and
\* separators beyond Latin-1.
Whitespace ==
    {"\t", "\n", "", "\f", "\r", "", "", "", "", " ", "", " ",
     "U+1680", "U+2000", "U+2001", "U+2002", "U+2003", "U+2004", "U+2005",
     "U+2006", "U+2007", "U+2008", "U+2009", "U+200A", "U+2028", "U+2029",
     "U+202F", "U+205F", "U+3000"}

UpperLetters ==
    <<"A", "B", "C", "D", "E", "F", "G", "H", "I", "J", "K", "L", "M",
      "N", "O", "P", "Q", "R", "S", "T", "U", "V", "W", "X", "Y", "Z">>

LowerLetters ==
    <<"a", "b", "c", "d", "e", "f", "g", "h", "i", "j", "k", "l", "m",
      "n", "o", "p", "q", "r", "s", "t", "u", "v", "w", "x", "y", "z">>

\* The upper-case letters of Latin-1 beyond ASCII, and their lower case.
Latin1Upper ==
    <<"À", "Á", "Â", "Ã", "Ä", "Å", "Æ", "Ç", "È", "É", "Ê", "Ë", "Ì", "Í",
      "Î", "Ï", "Ð", "Ñ", "Ò", "Ó", "Ô", "Õ", "Ö", "Ø", "Ù", "Ú", "Û", "Ü",
      "Ý", "Þ">>

Latin1Lower ==
    <<"à", "á", "â", "ã", "ä", "å", "æ", "ç", "è", "é", "ê", "ë", "ì", "í",
      "î", "ï", "ð", "ñ", "ò", "ó", "ô", "õ", "ö", "ø", "ù", "ú", "û", "ü",
      "ý", "þ">>

\* Letters without case, or lower-case letters without an upper case in the
\* alphabet; CJK IDEOGRAPH 4E2D; LATIN CAPITAL LETTER I WITH DOT ABOVE.
OtherLetters ==
    {"ª", "µ", "º", "ß", "ÿ", "U+4E2D", "U+0130"}

Letters ==
    {UpperLetters[i] : i \in 1..26} \cup {LowerLetters[i] : i \in 1..26}
        \cup {Latin1Upper[i] : i \in 1..Len(Latin1Upper)}
        \cup {Latin1Lower[i] : i \in 1..Len(Latin1Lower)}
        \cup OtherLetters

\* VULGAR FRACTIONs: numeric, so \w matches them; str.isdigit() is false.
Fractions == {"¼", "½", "¾"}

\* char.isdigit()
IsDigitChar(c) == c \in DecimalDigits \cup SuperDigits

\* The regular expression class \d, and the digits int() parses.
IsDecimalChar(c) == c \in DecimalDigits

\* The regular expression class \w.
IsWordChar(c) == c \in Letters \cup DecimalDigits \cup SuperDigits \cup Fractions \cup {"_"}

\* The regular expression class [\w\.-].
IsAddrChar(c) == IsWordChar(c) \/ c \in {".", "-"}

\* str.lower() of one character, a string: "U+0130" becomes two characters,
\* an i and COMBINING DOT ABOVE.
LowerChar(c) ==
    IF \E i \in 1..26 : UpperLetters[i] = c
    THEN <<LowerLetters[CHOOSE i \in 1..26 : UpperLetters[i] = c]>>
    ELSE IF \E i \in 1..Len(Latin1Upper) : Latin1Upper[i] = c
    THEN <<Latin1Lower[CHOOSE i \in 1..Len(Latin1Upper) : Latin1Upper[i] = c]>>
    ELSE IF c = "U+0130" THEN <<"i", "U+0307">>
    ELSE <<c>>

\* The strings w[1], ..., w[n] put one after the other.
RECURSIVE ConcatUpTo(_, _)
ConcatUpTo(w, n) == IF n = 0 THEN <<>> ELSE ConcatUpTo(w, n - 1) \o w[n]

\* The strings of w put one after the other.
Concat(w) == ConcatUpTo(w, Len(w))

\* In the operators below that use their string many times, the string is
\* bound once (t \in {s}) and the result is the one element of the set built
\* from it.

\* str.lower()
Lower(s) ==
    CHOOSE r \in {Concat([i \in 1..Len(t) |-> LowerChar(t[i])]) : t \in {s}} : TRUE

\* str.strip()
Strip(s) ==
    CHOOSE r \in
        { LET keep == {i \in 1..Len(t) : t[i] \notin Whitespace}
          IN  IF keep = {} THEN <<>>
              ELSE SubSeq(t, CHOOSE i \in keep : \A j \in keep : i <= j,
                             CHOOSE i \in keep : \A j \in keep : j <= i)
          : t \in {s} } : TRUE

\* str.startswith(p)
StartsWith(s, p) == Len(s) >= Len(p) /\ SubSeq(s, 1, Len(p)) = p

\* sub occurs in s at index i.
OccursAt(s, sub, i) ==
    i >= 1 /\ i + Len(sub) - 1 <= Len(s) /\ SubSeq(s, i, i + Len(sub) - 1) = sub

\* sub in s
Contains(s, sub) == \E i \in 1..(Len(s) + 1) : OccursAt(s, sub, i)

\* str.replace(old, new) for a non-empty old: leftmost occurrences, not
\* overlapping, the replacement text is not scanned again.
RECURSIVE Replace(_, _, _)
Replace(s, old, new) ==
    CHOOSE r \in
        { LET hits == {i \in 1..Len(t) : OccursAt(t, old, i)}
          IN  IF hits = {} THEN t
              ELSE LET i == CHOOSE h \in hits : \A k \in hits : h <= k
                   IN  SubSeq(t, 1, i - 1) \o new
                         \o Replace(SubSeq(t, i + Len(old), Len(t)), old, new)
          : t \in {s} } : TRUE

\* str.split(','): the items between the commas, empty items included.
RECURSIVE Split(_, _)
Split(s, sep) ==
    CHOOSE r \in
        { LET hits == {i \in 1..Len(t) : t[i] = sep}
          IN  IF hits = {} THEN <<t>>
              ELSE LET i == CHOOSE h \in hits : \A k \in hits : h <= k
                   IN  <<SubSeq(t, 1, i - 1)>> \o Split(SubSeq(t, i + 1, Len(t)), sep)
          : t \in {s} } : TRUE

\* sep.join(items)
RECURSIVE Join(_, _)
Join(items, sep) ==
    IF Len(items) = 0 THEN <<>>
    ELSE IF Len(items) = 1 THEN items[1]
    ELSE items[1] \o sep \o Join(Tail(items), sep)

\* ''.join(s.split()): s without its whitespace characters.
RemoveWhitespace(s) == SelectSeq(s, LAMBDA c : c \notin Whitespace)

\* str.isdigit()
IsDigit(s) == Len(s) > 0 /\ \A i \in 1..Len(s) : IsDigitChar(s[i])

\* The value of a decimal digit.
DigitValue(c) ==
    IF c \in Digits THEN CHOOSE n \in 0..9 : ToString(n) = c
    ELSE CHOOSE n \in 0..9 : ArabicIndicDigits[n + 1] = c \/ FullwidthDigits[n + 1] = c

\* sys.get_int_max_str_digits(): the longest run of digits int() converts.
IntMaxStrDigits == 4300

\* int(s) raises ValueError: after trimming, s is not a run of decimal
\* digits, or it is a run of more than IntMaxStrDigits of them.
IntRaises(s) ==
    LET t == Strip(s)
    IN  \/ Len(t) = 0
        \/ \E i \in 1..Len(t) : ~IsDecimalChar(t[i])
        \/ Len(t) > IntMaxStrDigits

\* The largest integer the model computes with. Python's int is unbounded;
\* the program only compares an int with 0 and 99.
IntMax == 999999999

\* The number of decimal digits of n.
RECURSIVE NumDigits(_)
NumDigits(n) == IF n < 10 THEN 1 ELSE 1 + NumDigits(n \div 10)

\* int(t) for a run t of at most NumDigits(IntMax) decimal digits, or IntMax
\* when it is larger.
RECURSIVE IntOfFewDigits(_)
IntOfFewDigits(t) ==
    IF Len(t) = 0 THEN 0
    ELSE CHOOSE n \in
           { IF hi > (IntMax - d) \div 10 THEN IntMax ELSE 10 * hi + d
             : hi \in {IntOfFewDigits(SubSeq(t, 1, Len(t) - 1))},
               d \in {DigitValue(t[Len(t)])} } : TRUE

\* int(t) for a run of decimal digits t, or IntMax when it is larger: the
\* leading zeros do not count, and a number of more digits than IntMax has
\* is larger than IntMax.
IntOfDigits(t) ==
    CHOOSE n \in
        { LET nonzero == {i \in 1..Len(u) : DigitValue(u[i]) # 0}
          IN  IF nonzero = {} THEN 0
              ELSE LET first == CHOOSE i \in nonzero : \A j \in nonzero : i <= j
                   IN  IF Len(u) - first + 1 > NumDigits(IntMax) THEN IntMax
                       ELSE IntOfFewDigits(SubSeq(u, first, Len(u)))
          : u \in {t} } : TRUE

\* int(s), where it does not raise: surrounding whitespace is ignored.
Int_(s) == CHOOSE n \in {IntOfDigits(t) : t \in {Strip(s)}} : TRUE

(***************************************************************************)
(* Program constants and the question list.                                *)
(***************************************************************************)

\* get_voice_input(self, prompt, retries=3)
retries == 3

\* ProfileCreator.questions
questions == <<
    [field |-> "name", field_type |-> "text", question |->
      <<"W", "h", "a", "t", " ", "i", "s", " ", "y", "o", "u", "r", " ", "f", "u", "l", "l", " ", "n", "a", "m", "e", "?">>],
    [field |-> "age", field_type |-> "number", question |->
      <<"W", "h", "a", "t", " ", "i", "s", " ", "y", "o", "u", "r", " ", "a", "g", "e", "?">>],
    [field |-> "email", field_type |-> "email", question |->
      <<"W", "h", "a", "t", " ", "i", "s", " ", "y", "o", "u", "r", " ", "e", "m", "a", "i", "l", " ", "a", "d", "d", "r", "e", "s", "s", "?">>],
    [field |-> "phone", field_type |-> "phone", question |->
      <<"W", "h", "a", "t", " ", "i", "s", " ", "y", "o", "u", "r", " ", "p", "h", "o", "n", "e", " ", "n", "u", "m", "b", "e", "r", "?">>],
    [field |-> "occupation", field_type |-> "text", question |->
      <<"W", "h", "a", "t", " ", "i", "s", " ", "y", "o", "u", "r", " ", "c", "u", "r", "r", "e", "n", "t", " ", "o", "c", "c", "u", "p", "a", "t", "i", "o", "n", "?">>],
    [field |-> "skills", field_type |-> "list", question |->
      <<"W", "h", "a", "t", " ", "a", "r", "e", " ", "y", "o", "u", "r", " ", "s", "k", "i", "l", "l", "s", "?", " ", "(", "s", "e", "p", "a", "r", "a", "t", "e", " ", "w", "i", "t", "h", " ", "a", "n", "d", ")">>],
    [field |-> "education", field_type |-> "text", question |->
      <<"W", "h", "a", "t", " ", "i", "s", " ", "y", "o", "u", "r", " ", "h", "i", "g", "h", "e", "s", "t", " ", "e", "d", "u", "c", "a", "t", "i", "o", "n", " ", "l", "e", "v", "e", "l", "?">>],
    [field |-> "location", field_type |-> "text", question |->
      <<"W", "h", "e", "r", "e", " ", "a", "r", "e", " ", "y", "o", "u", " ", "l", "o", "c", "a", "t", "e", "d", "?">>]
    >>

NumQuestions == Len(questions)

AnswerFields == {questions[k].field : k \in 1..NumQuestions}

(***************************************************************************)
(* Values of the record, tagged with their Python type.                    *)
(***************************************************************************)

None == [t |-> "None"]
Str(s) == [t |-> "str", v |-> s]
IntVal(n) == [t |-> "int", v |-> n]
List(items) == [t |-> "list", v |-> items]

\* self.profile as __init__ leaves it.
InitialProfile ==
    [name |-> None, age |-> None, email |-> None, phone |-> None,
     occupation |-> None, skills |-> List(<<>>), education |-> None,
     location |-> None, created_at |-> None]

(***************************************************************************)
(* _validate_input: "True", "False", or "ValueError" when int() raises.    *)
(***************************************************************************)

\* What a pattern ending in '$' is matched against: '$' matches at the end
\* of the string and also just before a newline that ends it.
BeforeFinalNewline(x) ==
    IF Len(x) > 0 /\ x[Len(x)] = "\n" THEN SubSeq(x, 1, Len(x) - 1) ELSE x

\* re.match(r'^[\w\.-]+@[\w\.-]+\.\w+$', x)
MatchEmail(x) ==
    LET e == BeforeFinalNewline(x)
    IN  \E i \in 1..Len(e) : \E j \in 1..Len(e) :
            /\ 1 < i /\ i + 1 < j /\ j < Len(e)
            /\ e[i] = "@" /\ e[j] = "."
            /\ \A k \in 1..(i - 1) : IsAddrChar(e[k])
            /\ \A k \in (i + 1)..(j - 1) : IsAddrChar(e[k])
            /\ \A k \in (j + 1)..Len(e) : IsWordChar(e[k])

\* re.match(r'^\d{10}$', x.replace('-', '').replace(' ', ''))
MatchPhone(x) ==
    LET d == BeforeFinalNewline(Replace(Replace(x, <<"-">>, <<>>), <<" ">>, <<>>))
    IN  Len(d) = 10 /\ \A k \in 1..Len(d) : IsDecimalChar(d[k])

\* all(len(item.strip()) > 0 for item in x.split(','))
ValidList(x) ==
    LET items == Split(x, ",")
    IN  \A k \in 1..Len(items) : Len(Strip(items[k])) > 0

Bool(b) == IF b THEN "True" ELSE "False"

\* _validate_input where a kind other than the five known ones is rejected.
_validate_input_UnknownRejected(field_type, value) ==
    IF Len(value) = 0 \/ Len(Strip(value)) = 0 THEN "False"
    ELSE LET x == Strip(value)
         IN  CASE field_type = "text" -> Bool(Len(x) >= 2)
               [] field_type = "number" ->
                    IF ~IsDigit(x) THEN "False"
                    ELSE IF IntRaises(x) THEN "ValueError"
                    ELSE Bool(0 <= Int_(x) /\ Int_(x) <= 99)
               [] field_type = "email" -> Bool(MatchEmail(x))
               [] field_type = "phone" -> Bool(MatchPhone(x))
               [] field_type = "list" -> Bool(ValidList(x))
               [] OTHER -> "False"

\* _validate_input where the range of a number ends at 100, not at 99.
_validate_input_UpTo100(field_type, value) ==
    IF Len(value) = 0 \/ Len(Strip(value)) = 0 THEN "False"
    ELSE LET x == Strip(value)
         IN  CASE field_type = "text" -> Bool(Len(x) >= 2)
               [] field_type = "number" ->
                    IF ~IsDigit(x) THEN "False"
                    ELSE IF IntRaises(x) THEN "ValueError"
                    ELSE Bool(0 <= Int_(x) /\ Int_(x) <= 100)
               [] field_type = "email" -> Bool(MatchEmail(x))
               [] field_type = "phone" -> Bool(MatchPhone(x))
               [] field_type = "list" -> Bool(ValidList(x))
               [] OTHER -> "True"

_validate_input(field_type, value) ==
    IF Len(value) = 0 \/ Len(Strip(value)) = 0 THEN "False"
    ELSE LET x == Strip(value)
         IN  CASE field_type = "text" -> Bool(Len(x) >= 2)
               [] field_type = "number" ->
                    IF ~IsDigit(x) THEN "False"
                    ELSE IF IntRaises(x) THEN "ValueError"
                    ELSE Bool(0 <= Int_(x) /\ Int_(x) <= 99)
               [] field_type = "email" -> Bool(MatchEmail(x))
               [] field_type = "phone" -> Bool(MatchPhone(x))
               [] field_type = "list" -> Bool(ValidList(x))
               [] OTHER -> "True"

(***************************************************************************)
(* The rewriting get_voice_input applies to a recognized transcript, keyed *)
(* by a marker in the lower-cased prompt.                                  *)
(***************************************************************************)

\* NormalizeAge without the test of line 82: the digits replace the
\* transcript even when there are none.
NormalizeAge_AlwaysDigits(transcript) ==
    LET r == Lower(transcript)
    IN  SelectSeq(r, IsDigitChar)

NormalizeAge(transcript) ==
    LET r == Lower(transcript)
        nums == SelectSeq(r, IsDigitChar)
    IN  IF Len(nums) > 0 THEN nums ELSE r

NormalizeEmail(transcript) ==
    LET r0 == Lower(transcript)
        r1 == Replace(r0, <<"t", "h", "e", " ", "r", "a", "t", "e">>, <<>>)
        r2 == Replace(r1, <<" ", "a", "t", " ">>, <<"@">>)
        r3 == Replace(r2, <<"a", "t", " ", "r", "a", "t", "e">>, <<"@">>)
        r4 == Replace(r3, <<" ", "d", "o", "t", " ">>, <<".">>)
        r5 == Replace(r4, <<"d", "o", "t">>, <<".">>)
    IN  RemoveWhitespace(r5)

NormalizeSkills(transcript) ==
    LET r0 == Lower(transcript)
        r1 == Replace(r0, <<" ", "a", "n", "d", " ">>, <<",", " ">>)
        r2 == Replace(r1, <<" ", "c", "o", "m", "m", "a", " ">>, <<",", " ">>)
        items == Split(r2, ",")
    IN  Join([k \in 1..Len(items) |-> Strip(items[k])], <<",", " ">>)

Normalize(prompt, transcript) ==
    LET p == Lower(prompt)
    IN  IF Contains(p, <<"a", "g", "e">>) THEN NormalizeAge(transcript)
        ELSE IF Contains(p, <<"e", "m", "a", "i", "l">>) THEN NormalizeEmail(transcript)
        ELSE IF Contains(p, <<"s", "k", "i", "l", "l", "s">>) THEN NormalizeSkills(transcript)
        ELSE transcript

\* input(...).lower().startswith('y')
Affirmative(r) == StartsWith(Lower(r), <<"y">>)

\* The value create_profile stores for a validated answer.
Coerce(field, ans) ==
    IF field = "skills"
    THEN LET items == Split(ans, ",")
         IN  List([k \in 1..Len(items) |-> Strip(items[k])])
    ELSE IF field = "age" THEN IntVal(Int_(ans))
    ELSE Str(ans)

(***************************************************************************)
(* The inputs of a session: what the user types, what the recognizer       *)
(* returns, what the user replies to a yes/no prompt.                      *)
(***************************************************************************)

\* Lines typed at a question of the given kind (input() returns them untrimmed).
TypedLines(field_type) ==
    CASE field_type = "text" ->
           {<<>>, <<" ", "\n">>, <<"J">>, <<" ", "J", "o", "\r">>}
      [] field_type = "number" ->
           {<<>>, <<"7">>, <<"U+0667">>, <<"1", "0", "0">>, <<"7", "a">>, <<"²">>}
      [] field_type = "email" ->
           {<<"a", "b", "c">>, <<"a", "@", "b">>, <<"é", "@", "b", ".", "c", "o">>}
      [] field_type = "phone" ->
           {<<"1", "2", "3", "4", "5">>,
            <<"5", "5", "5", "1", "2", "3", "4", "5", "6", "7">>,
            <<"5", "5", "5", "-", "1", "2", "3", " ", "4", "5", "6", "7">>}
      [] field_type = "list" ->
           {<<>>, <<"a", ",", "\n", ",", "b">>, <<"p", "y", ",", " ", "g", "o">>, <<"p", "y">>}

\* Transcripts recognize_google returns at a question of the given kind.
Transcripts(field_type) ==
    CASE field_type = "text" -> {<<" ", "J", "o">>, <<"x">>}
      [] field_type = "number" ->
           {<<"I", " ", "a", "m", " ", "7">>, <<"s", "e", "v", "e", "n">>, <<"7", "²">>}
      [] field_type = "email" ->
           {<<"É", " ", "a", "t", " ", "B", " ", "d", "o", "t", " ", "c", "o">>,
            <<"a", " ", "a", "t", " ", "r", "a", "t", "e", " ", "b">>}
      [] field_type = "phone" ->
           {<<"5", "5", "5", "1", "2", "3", "4", "5", "6", "7">>, <<"5", "5", "5">>,
            <<"5", "5", "5", "1", "2", "3", "4", "5", "6", "7", "\n", "-">>}
      [] field_type = "list" ->
           {<<"P", "y", " ", "a", "n", "d", " ", "G", "o">>, <<"p", "y", ",", ",">>}

\* Replies to "Use voice input? (y/n)" and "Is this correct? (y/n)".
Replies == {<<"y">>, <<"Y", "e", "s">>, <<"n">>, <<>>, <<" ", "y">>}

\* Values of datetime.now().isoformat().
Timestamps == {<<"t", "1">>, <<"t", "2">>}

\* Bounds of the history counters.
MaxTries == 3
MaxQListens == 4

(***************************************************************************)
(* State.                                                                  *)
(***************************************************************************)

VARIABLES
    pc,          \* position of the session in main / create_profile / get_voice_input / save_profile
    exc,         \* the exception being raised, "none" when there is none
    use_voice,   \* create_profile's use_voice
    qi,          \* index in questions of the question being asked; NumQuestions + 1 after the loop
    profile,     \* self.profile
    attempt,     \* get_voice_input's loop variable
    result,      \* get_voice_input's result: the normalized transcript
    answer,      \* create_profile's answer
    reply,       \* the last reply to "Is this correct?" in this acquisition
    line,        \* the last line read by get_text_input in this acquisition
    file,        \* profiles/user_profile.json
    notice,      \* the message main ends the session with
    displayed,   \* display_profile has run
    \* History of the session, kept to state the properties:
    answer_from, \* "voice": answer is a confirmed transcript; "text": a get_text_input line
    listens,     \* calls of recognizer.listen in this acquisition
    reads,       \* calls of get_text_input in this acquisition
    svc_error,   \* recognize_google raised RequestError in this acquisition
    qlistens,    \* calls of recognizer.listen while on the current question (up to MaxQListens)
    tries,       \* acquisitions started for the current question (up to MaxTries)
    retry_cause, \* why the current question is asked again: "invalid", "error", or "none"
    saves,       \* calls of save_profile
    stamps,      \* assignments to profile['created_at']
    \* A call of one function on its own, outside a session:
    call         \* the function, its arguments and what it returned

vars == <<pc, exc, use_voice, qi, profile, attempt, result, answer, reply, line,
          file, notice, displayed, answer_from, listens, reads, svc_error,
          qlistens, tries, retry_cause, saves, stamps, call>>

\* The variables of a session.
session == <<pc, exc, use_voice, qi, profile, attempt, result, answer, reply, line,
             file, notice, displayed, answer_from, listens, reads, svc_error,
             qlistens, tries, retry_cause, saves, stamps>>

\* The positions inside the try block of the question loop.
InQuestionLoop == {"text", "listen", "recognize", "confirm", "fallback", "validate"}

\* The positions at which the session has ended.
Ended == {"done", "cancelled", "failed"}

\* Subclasses of Exception the session can meet.
Exceptions == {"EOFError", "OSError", "ValueError"}

Absent == [t |-> "absent"]
Truncated == [t |-> "truncated"]
Json(record) == [t |-> "json", v |-> record]

\* The record an earlier session wrote.
EarlierProfile ==
    [name |-> Str(<<"o", "l", "d">>), age |-> IntVal(1),
     email |-> Str(<<"o", "@", "l", ".", "d">>),
     phone |-> Str(<<"0", "0", "0", "0", "0", "0", "0", "0", "0", "0">>),
     occupation |-> Str(<<"o", "l", "d">>), skills |-> List(<< <<"o", "l", "d">> >>),
     education |-> Str(<<"o", "l", "d">>), location |-> Str(<<"o", "l", "d">>),
     created_at |-> Str(<<"t", "0">>)]

\* profiles/user_profile.json when the program starts: nothing creates or
\* removes it before save_profile, so it is absent, or as an earlier session
\* left it: written whole, or empty or partial when its write failed or was
\* interrupted.
InitialFiles == {Absent, Json(EarlierProfile), Truncated}

Min(a, b) == IF a < b THEN a ELSE b

Current == questions[qi]

\* No function is called on its own during a session.
NoCall == [fn |-> "none"]

\* main, lines 172-173: the session as ProfileCreator() leaves it, and the
\* file as it is found.
SessionStart ==
    /\ pc = "mode"
    /\ exc = "none"
    /\ use_voice = FALSE
    /\ qi = 1
    /\ profile = InitialProfile
    /\ attempt = 0
    /\ result = <<>>
    /\ answer = <<>>
    /\ reply = <<>>
    /\ line = <<>>
    /\ file \in InitialFiles
    /\ notice = "none"
    /\ displayed = FALSE
    /\ answer_from = "none"
    /\ listens = 0
    /\ reads = 0
    /\ svc_error = FALSE
    /\ qlistens = 0
    /\ tries = 1
    /\ retry_cause = "none"
    /\ saves = 0
    /\ stamps = 0

Init == SessionStart /\ call = NoCall

(***************************************************************************)
(* create_profile, line 132: one acquisition of an answer begins, by       *)
(* get_voice_input(question) or by get_text_input(question).               *)
(***************************************************************************)
BeginAcquire(voice) ==
    /\ pc' = IF voice THEN "listen" ELSE "text"
    /\ attempt' = 0
    /\ result' = <<>>
    /\ answer' = <<>>
    /\ reply' = <<>>
    /\ line' = <<>>
    /\ answer_from' = "none"
    /\ listens' = 0
    /\ reads' = 0
    /\ svc_error' = FALSE

\* The same question is asked again (the while True loop goes round).
AskAgain(cause) ==
    /\ BeginAcquire(use_voice)
    /\ tries' = Min(tries + 1, MaxTries)
    /\ retry_cause' = cause
    /\ UNCHANGED <<qi, qlistens>>

\* create_profile, line 127.
ChooseMode(r) ==
    /\ pc = "mode" /\ exc = "none"
    /\ use_voice' = Affirmative(r)
    /\ BeginAcquire(Affirmative(r))
    /\ UNCHANGED <<exc, qi, profile, file, notice, displayed, qlistens, tries,
                   retry_cause, saves, stamps>>
    /\ UNCHANGED call

\* TextInput where a fallback to text entry switches the session to text mode.
TextInput_SwitchesMode(l) ==
    /\ pc \in {"text", "fallback"} /\ exc = "none"
    /\ line' = l
    /\ answer' = Strip(l)
    /\ answer_from' = "text"
    /\ reads' = reads + 1
    /\ pc' = "validate"
    /\ use_voice' = (use_voice /\ pc # "fallback")
    /\ UNCHANGED <<exc, qi, profile, attempt, result, reply, file, notice,
                   displayed, listens, svc_error, qlistens, tries, retry_cause,
                   saves, stamps>>
    /\ UNCHANGED call

\* get_text_input, called by create_profile (text mode) or by get_voice_input
\* (lines 113 and 116).
TextInput(l) ==
    /\ pc \in {"text", "fallback"} /\ exc = "none"
    /\ line' = l
    /\ answer' = Strip(l)
    /\ answer_from' = "text"
    /\ reads' = reads + 1
    /\ pc' = "validate"
    /\ UNCHANGED <<exc, use_voice, qi, profile, attempt, result, reply, file, notice,
                   displayed, listens, svc_error, qlistens, tries, retry_cause,
                   saves, stamps>>
    /\ UNCHANGED call

\* NextAttempt with the loop bound off by one: a fourth attempt is made.
NextAttempt_OffByOne ==
    /\ attempt' = attempt + 1
    /\ pc' = IF attempt + 1 <= retries THEN "listen" ELSE "fallback"

\* get_voice_input: the for loop goes to its next attempt, or ends and
\* line 116 falls back to text.
NextAttempt ==
    /\ attempt' = attempt + 1
    /\ pc' = IF attempt + 1 < retries THEN "listen" ELSE "fallback"

Listened ==
    /\ listens' = listens + 1
    /\ qlistens' = Min(qlistens + 1, MaxQListens)

\* get_voice_input, line 74: recognizer.listen returns the audio it heard.
Listen ==
    /\ pc = "listen" /\ exc = "none"
    /\ Listened
    /\ pc' = "recognize"
    /\ UNCHANGED <<exc, use_voice, qi, profile, attempt, result, answer, reply, line,
                   file, notice, displayed, answer_from, reads, svc_error, tries,
                   retry_cause, saves, stamps>>
    /\ UNCHANGED call

\* get_voice_input, lines 75-103: recognize_google returns a transcript,
\* which is normalized.
ListenTranscript(transcript) ==
    /\ pc = "recognize" /\ exc = "none"
    /\ result' = Normalize(Current.question, transcript)
    /\ pc' = "confirm"
    /\ UNCHANGED <<exc, use_voice, qi, profile, attempt, answer, reply, line, file,
                   notice, displayed, answer_from, listens, reads, svc_error,
                   qlistens, tries, retry_cause, saves, stamps>>
    /\ UNCHANGED call

\* get_voice_input, lines 107-110: recognizer.listen raises WaitTimeoutError
\* (line 74), or recognize_google raises UnknownValueError (line 75).
ListenNothing(error) ==
    /\ exc = "none"
    /\ \/ error = "WaitTimeoutError" /\ pc = "listen" /\ Listened
       \/ /\ error = "UnknownValueError" /\ pc = "recognize"
          /\ UNCHANGED <<listens, qlistens>>
    /\ NextAttempt
    /\ UNCHANGED <<exc, use_voice, qi, profile, result, answer, reply, line, file,
                   notice, displayed, answer_from, reads, svc_error, tries,
                   retry_cause, saves, stamps>>
    /\ UNCHANGED call

\* ListenRequestError handled like the recognition failures: the next attempt
\* is made instead of the immediate fallback.
ListenRequestError_Retries ==
    /\ pc = "recognize" /\ exc = "none"
    /\ svc_error' = TRUE
    /\ NextAttempt
    /\ UNCHANGED <<exc, use_voice, qi, profile, result, answer, reply, line,
                   file, notice, displayed, answer_from, listens, reads, qlistens,
                   tries, retry_cause, saves, stamps>>
    /\ UNCHANGED call

\* get_voice_input, lines 111-113: recognize_google raises RequestError.
ListenRequestError ==
    /\ pc = "recognize" /\ exc = "none"
    /\ svc_error' = TRUE
    /\ pc' = "fallback"
    /\ UNCHANGED <<exc, use_voice, qi, profile, attempt, result, answer, reply, line,
                   file, notice, displayed, answer_from, listens, reads, qlistens,
                   tries, retry_cause, saves, stamps>>
    /\ UNCHANGED call

\* Confirm without the test of the reply: the transcript is returned whatever
\* the user answers.
Confirm_IgnoresReply(r) ==
    /\ pc = "confirm" /\ exc = "none"
    /\ reply' = r
    /\ answer' = result
    /\ answer_from' = "voice"
    /\ pc' = "validate"
    /\ UNCHANGED <<exc, use_voice, qi, profile, attempt, result, line, file, notice,
                   displayed, listens, reads, svc_error, qlistens, tries,
                   retry_cause, saves, stamps>>
    /\ UNCHANGED call

\* Confirm where a declined transcript does not consume a retry.
Confirm_DeclineIsFree(r) ==
    /\ pc = "confirm" /\ exc = "none"
    /\ reply' = r
    /\ IF Affirmative(r)
       THEN /\ answer' = result
            /\ answer_from' = "voice"
            /\ pc' = "validate"
       ELSE /\ pc' = "listen"
            /\ UNCHANGED <<answer, answer_from>>
    /\ UNCHANGED <<exc, use_voice, qi, profile, attempt, result, line, file, notice,
                   displayed, listens, reads, svc_error, qlistens, tries,
                   retry_cause, saves, stamps>>
    /\ UNCHANGED call

\* get_voice_input, lines 104-105.
Confirm(r) ==
    /\ pc = "confirm" /\ exc = "none"
    /\ reply' = r
    /\ IF Affirmative(r)
       THEN /\ answer' = result
            /\ answer_from' = "voice"
            /\ pc' = "validate"
            /\ UNCHANGED attempt
       ELSE /\ NextAttempt
            /\ UNCHANGED <<answer, answer_from>>
    /\ UNCHANGED <<exc, use_voice, qi, profile, result, line, file, notice, displayed,
                   listens, reads, svc_error, qlistens, tries, retry_cause, saves,
                   stamps>>
    /\ UNCHANGED call

\* StoreAndAdvance with line 146 inside the for loop: created_at is stamped
\* with every stored answer.
StoreAndAdvance_Stamps ==
    /\ profile' = [profile EXCEPT ![Current.field] = Coerce(Current.field, answer),
                                  !.created_at = Str(<<"t", "1">>)]
    /\ qi' = qi + 1
    /\ tries' = 1
    /\ retry_cause' = "none"
    /\ qlistens' = 0
    /\ IF qi < NumQuestions
       THEN BeginAcquire(use_voice)
       ELSE /\ pc' = "stamp"
            /\ UNCHANGED <<attempt, result, answer, reply, line, answer_from,
                           listens, reads, svc_error>>
    /\ UNCHANGED exc

\* create_profile, lines 135-141: the validated answer is stored and the
\* for loop moves to the next question, or ends after the last one.
StoreAndAdvance ==
    /\ profile' = [profile EXCEPT ![Current.field] = Coerce(Current.field, answer)]
    /\ qi' = qi + 1
    /\ tries' = 1
    /\ retry_cause' = "none"
    /\ qlistens' = 0
    /\ IF qi < NumQuestions
       THEN BeginAcquire(use_voice)
       ELSE /\ pc' = "stamp"
            /\ UNCHANGED <<attempt, result, answer, reply, line, answer_from,
                           listens, reads, svc_error>>
    /\ UNCHANGED exc

\* RejectAnswer with the break of line 141 outside the if: a rejected answer
\* is not stored, but the loop moves on to the next question.
RejectAnswer_Advances ==
    /\ qi' = qi + 1
    /\ tries' = 1
    /\ retry_cause' = "invalid"
    /\ qlistens' = 0
    /\ IF qi < NumQuestions
       THEN BeginAcquire(use_voice)
       ELSE /\ pc' = "stamp"
            /\ UNCHANGED <<attempt, result, answer, reply, line, answer_from,
                           listens, reads, svc_error>>
    /\ UNCHANGED <<exc, profile>>

\* RejectAnswer that keeps the rejected answer in the record while asking again.
RejectAnswer_Stores ==
    /\ AskAgain("invalid")
    /\ profile' = [profile EXCEPT ![Current.field] = Str(answer)]
    /\ UNCHANGED exc

\* RejectAnswer with a cap on the validation retries: the second rejection of
\* an answer to one question ends the session.
RejectAnswer_GivesUp ==
    /\ IF tries < 2
       THEN AskAgain("invalid")
       ELSE /\ pc' = "failed"
            /\ retry_cause' = "invalid"
            /\ UNCHANGED <<qi, attempt, result, answer, reply, line, answer_from,
                           listens, reads, svc_error, qlistens, tries>>
    /\ UNCHANGED <<exc, profile>>

\* create_profile, line 142: the answer is rejected.
RejectAnswer ==
    /\ AskAgain("invalid")
    /\ UNCHANGED <<exc, profile>>

\* create_profile, lines 134-142, on the answer the acquisition returned.
Validate ==
    /\ pc = "validate" /\ exc = "none"
    /\ LET v == _validate_input(Current.field_type, answer)
       IN  CASE v = "True" -> StoreAndAdvance
             [] v = "False" -> RejectAnswer
             [] v = "ValueError" ->
                  /\ exc' = "ValueError"
                  /\ UNCHANGED <<pc, qi, profile, attempt, result, answer, reply, line,
                                 answer_from, listens, reads, svc_error, qlistens,
                                 tries, retry_cause>>
    /\ UNCHANGED <<use_voice, file, notice, displayed, saves, stamps>>
    /\ UNCHANGED call

\* input() raises EOFError (lines 104, 120 and 127).
InputEOF ==
    /\ pc \in {"mode", "text", "fallback", "confirm"} /\ exc = "none"
    /\ exc' = "EOFError"
    /\ UNCHANGED <<pc, use_voice, qi, profile, attempt, result, answer, reply, line,
                   file, notice, displayed, answer_from, listens, reads, svc_error,
                   qlistens, tries, retry_cause, saves, stamps>>
    /\ UNCHANGED call

\* Opening the microphone raises OSError (line 65), before anything is heard.
MicrophoneError ==
    /\ pc = "listen" /\ exc = "none"
    /\ exc' = "OSError"
    /\ UNCHANGED <<pc, use_voice, qi, profile, attempt, result, answer, reply, line,
                   file, notice, displayed, answer_from, listens, reads, svc_error,
                   qlistens, tries, retry_cause, saves, stamps>>
    /\ UNCHANGED call

\* ExceptInLoop catching ValueError only: any other exception leaves the loop
\* and reaches main.
ExceptInLoop_ValueErrorOnly ==
    /\ exc \in Exceptions /\ pc \in InQuestionLoop
    /\ exc' = "none"
    /\ IF exc = "ValueError"
       THEN /\ AskAgain("error")
            /\ UNCHANGED notice
       ELSE /\ pc' = "failed"
            /\ notice' = "error"
            /\ UNCHANGED <<qi, attempt, result, answer, reply, line, answer_from,
                           listens, reads, svc_error, qlistens, tries, retry_cause>>
    /\ UNCHANGED <<use_voice, profile, file, displayed, saves, stamps>>
    /\ UNCHANGED call

\* create_profile, lines 143-144: except Exception inside the question loop.
ExceptInLoop ==
    /\ exc \in Exceptions /\ pc \in InQuestionLoop
    /\ exc' = "none"
    /\ AskAgain("error")
    /\ UNCHANGED <<use_voice, profile, file, notice, displayed, saves, stamps>>
    /\ UNCHANGED call

\* Interrupt that saves what was collected before the session ends.
Interrupt_Saves ==
    /\ pc \notin Ended /\ exc = "none"
    /\ pc' = "cancelled"
    /\ notice' = "cancelled"
    /\ file' = Json(profile)
    /\ UNCHANGED <<exc, use_voice, qi, profile, attempt, result, answer, reply, line,
                   displayed, answer_from, listens, reads, svc_error, qlistens,
                   tries, retry_cause, saves, stamps>>
    /\ UNCHANGED call

\* The operator interrupts the session: KeyboardInterrupt is raised wherever
\* the session is, no except Exception catches it, and main (lines 174-175)
\* ends the session with the cancellation notice.
Interrupt ==
    /\ pc \notin Ended /\ exc = "none"
    /\ pc' = "cancelled"
    /\ notice' = "cancelled"
    /\ UNCHANGED <<exc, use_voice, qi, profile, attempt, result, answer, reply, line,
                   file, displayed, answer_from, listens, reads, svc_error, qlistens,
                   tries, retry_cause, saves, stamps>>
    /\ UNCHANGED call

\* ExceptMain as an except inside create_profile around save_profile: the
\* failure is reported and create_profile goes on to display_profile.
ExceptMain_GoesOn ==
    /\ exc \in Exceptions /\ pc \notin InQuestionLoop
    /\ exc' = "none"
    /\ pc' = IF pc \in {"save", "write"} THEN "display" ELSE "failed"
    /\ notice' = "error"
    /\ UNCHANGED <<use_voice, qi, profile, attempt, result, answer, reply, line, file,
                   displayed, answer_from, listens, reads, svc_error, qlistens,
                   tries, retry_cause, saves, stamps>>
    /\ UNCHANGED call

\* main, lines 176-177: except Exception, for what the question loop did not catch.
ExceptMain ==
    /\ exc \in Exceptions /\ pc \notin InQuestionLoop
    /\ exc' = "none"
    /\ pc' = "failed"
    /\ notice' = "error"
    /\ UNCHANGED <<use_voice, qi, profile, attempt, result, answer, reply, line, file,
                   displayed, answer_from, listens, reads, svc_error, qlistens,
                   tries, retry_cause, saves, stamps>>
    /\ UNCHANGED call

\* create_profile, line 146.
Stamp(now) ==
    /\ pc = "stamp" /\ exc = "none"
    /\ profile' = [profile EXCEPT !.created_at = Str(now)]
    /\ stamps' = stamps + 1
    /\ pc' = "save"
    /\ UNCHANGED <<exc, use_voice, qi, attempt, result, answer, reply, line, file,
                   notice, displayed, answer_from, listens, reads, svc_error,
                   qlistens, tries, retry_cause, saves>>
    /\ UNCHANGED call

\* save_profile, lines 152-155: the directory is made and open(filepath, 'w')
\* truncates the file.
OpenProfileFile ==
    /\ pc = "save" /\ exc = "none"
    /\ saves' = saves + 1
    /\ file' = Truncated
    /\ pc' = "write"
    /\ UNCHANGED <<exc, use_voice, qi, profile, attempt, result, answer, reply, line,
                   notice, displayed, answer_from, listens, reads, svc_error,
                   qlistens, tries, retry_cause, stamps>>
    /\ UNCHANGED call

\* save_profile, lines 156-158: json.dump writes the record and the file is
\* closed.
SaveProfile ==
    /\ pc = "write" /\ exc = "none"
    /\ file' = Json(profile)
    /\ pc' = "display"
    /\ UNCHANGED <<exc, use_voice, qi, profile, attempt, result, answer, reply, line,
                   notice, displayed, answer_from, listens, reads, svc_error,
                   qlistens, tries, retry_cause, saves, stamps>>
    /\ UNCHANGED call

\* save_profile raises OSError: mkdir or open fails (the file is untouched),
\* or the write fails after open truncated the file.
SaveProfileFails ==
    /\ exc = "none"
    /\ \/ pc = "save" /\ saves' = saves + 1
       \/ pc = "write" /\ UNCHANGED saves
    /\ exc' = "OSError"
    /\ UNCHANGED <<pc, use_voice, qi, profile, attempt, result, answer, reply, line,
                   file, notice, displayed, answer_from, listens, reads, svc_error,
                   qlistens, tries, retry_cause, stamps>>
    /\ UNCHANGED call

\* display_profile, lines 160-167; create_profile and main then return.
DisplayProfile ==
    /\ pc = "display" /\ exc = "none"
    /\ displayed' = TRUE
    /\ pc' = "done"
    /\ UNCHANGED <<exc, use_voice, qi, profile, attempt, result, answer, reply, line,
                   file, notice, answer_from, listens, reads, svc_error, qlistens,
                   tries, retry_cause, saves, stamps>>
    /\ UNCHANGED call

Next ==
    \/ \E r \in Replies : ChooseMode(r)
    \/ /\ qi <= NumQuestions
       /\ \E l \in TypedLines(Current.field_type) : TextInput(l)
    \/ /\ qi <= NumQuestions
       /\ \E transcript \in Transcripts(Current.field_type) : ListenTranscript(transcript)
    \/ Listen
    \/ \E error \in {"WaitTimeoutError", "UnknownValueError"} : ListenNothing(error)
    \/ ListenRequestError
    \/ \E r \in Replies : Confirm(r)
    \/ Validate
    \/ InputEOF
    \/ MicrophoneError
    \/ Interrupt
    \/ ExceptInLoop
    \/ ExceptMain
    \/ \E now \in Timestamps : Stamp(now)
    \/ OpenProfileFile
    \/ SaveProfile
    \/ SaveProfileFails
    \/ DisplayProfile

Spec == Init /\ [][Next]_vars

(***************************************************************************)
(* A text-mode session: the user declines voice input at line 127.  The    *)
(* steps the program takes by itself are weakly fair: the interpreter goes *)
(* on running.  A user who at every question eventually types an answer    *)
(* that passes validation is strong fairness of ValidTextInput.            *)
(***************************************************************************)

\* The user types a line that _validate_input accepts for the current question.
ValidTextInput ==
    /\ qi <= NumQuestions
    /\ \E l \in TypedLines(Current.field_type) :
          /\ _validate_input(Current.field_type, Strip(l)) = "True"
          /\ TextInput(l)

TextNext ==
    \/ \E r \in Replies : ~Affirmative(r) /\ ChooseMode(r)
    \/ /\ qi <= NumQuestions
       /\ \E l \in TypedLines(Current.field_type) : TextInput(l)
    \/ Validate
    \/ InputEOF
    \/ Interrupt
    \/ ExceptInLoop
    \/ ExceptMain
    \/ \E now \in Timestamps : Stamp(now)
    \/ OpenProfileFile
    \/ SaveProfile
    \/ SaveProfileFails
    \/ DisplayProfile

TextSpec ==
    /\ Init /\ [][TextNext]_vars
    /\ WF_vars(Validate) /\ WF_vars(ExceptInLoop) /\ WF_vars(ExceptMain)
    /\ WF_vars(\E now \in Timestamps : Stamp(now))
    /\ WF_vars(OpenProfileFile \/ SaveProfile \/ SaveProfileFails)
    /\ WF_vars(DisplayProfile)
    /\ SF_vars(ValidTextInput)

(***************************************************************************)
(* The validator and the transcript rewriting, called on their own: one    *)
(* call per behaviour, its arguments drawn from bounded sets of strings.   *)
(***************************************************************************)

\* The longest value handed to _validate_input.
MaxLen == 3

\* The most tokens in a transcript handed to the rewriting.
MaxWords == 4

\* The field kinds of the question list, and one kind that is not among them.
FieldKinds == {"text", "number", "email", "phone", "list", "date"}

\* Characters of the values handed to _validate_input.
ValueChars == {"0", "1", "2", "7", "9", "a", " ", "\n", "²", "U+0663"}

\* The strings of at most n characters of alphabet.
StringsUpTo(alphabet, n) == UNION {[1..m -> alphabet] : m \in 0..n}

\* The questions whose prompt selects a rewriting (lines 78, 85 and 95), and
\* one whose prompt selects none.
AgeQuestion == 2
EmailQuestion == 3
OccupationQuestion == 5
SkillsQuestion == 6

\* Pieces of the transcripts the recognizer returns at question k.
Tokens(k) ==
    CASE k = AgeQuestion ->
           {<<"I">>, <<" ">>, <<"7">>, <<"U+0663">>, <<"²">>, <<"a", "m">>}
      [] k = EmailQuestion ->
           {<<"a">>, <<"É">>, <<" ", "a", "t", " ", "r", "a", "t", "e", " ">>,
            <<" ", "a", "t", " ">>, <<" ", "d", "o", "t", " ">>, <<"c", "o">>}
      [] k = SkillsQuestion ->
           {<<"a">>, <<"G", "o">>, <<" ", "a", "n", "d", " ">>, <<"a", "n", "d">>,
            <<" ">>, <<",">>, <<" ", "c", "o", "m", "m", "a", " ">>}
      [] OTHER -> {<<"J">>, <<" ">>}

\* The transcripts of at most MaxWords pieces at question k.
SpokenAt(k) == {Concat(w) : w \in StringsUpTo(Tokens(k), MaxWords)}

\* One call is under way: self._validate_input(field_type, value) before it
\* returns, or get_voice_input(prompt) with the recognizer's transcript in
\* hand (line 75) before the rewriting of lines 76-101.
\* A run of n zeros.
Zeros(n) == [i \in 1..n |-> "0"]

PureInit ==
    /\ SessionStart /\ file = Absent
    /\ \/ \E ft \in FieldKinds, v \in StringsUpTo(ValueChars, MaxLen) :
             call = [fn |-> "_validate_input", field_type |-> ft, value |-> v,
                     returned |-> <<>>]
       \/ \E n \in {IntMaxStrDigits, IntMaxStrDigits + 1} :
             call = [fn |-> "_validate_input", field_type |-> "number",
                     value |-> Zeros(n), returned |-> <<>>]
       \/ \E k \in {AgeQuestion, EmailQuestion, OccupationQuestion, SkillsQuestion} :
             \E t \in SpokenAt(k) :
                call = [fn |-> "normalize", prompt |-> questions[k].question,
                        transcript |-> t, returned |-> <<>>, again |-> <<>>]

\* _validate_input returns (or raises ValueError at line 53).
CallValidate ==
    /\ call.fn = "_validate_input" /\ call.returned = <<>>
    /\ call' = [call EXCEPT !.returned = <<_validate_input(call.field_type, call.value)>>]
    /\ UNCHANGED session

\* Lines 76-101 rewrite the transcript.
CallNormalize ==
    /\ call.fn = "normalize" /\ call.returned = <<>>
    /\ call' = [call EXCEPT !.returned = <<Normalize(call.prompt, call.transcript)>>]
    /\ UNCHANGED session

\* Lines 76-101 rewrite what they produced: the result is spoken back.
CallNormalizeAgain ==
    /\ call.fn = "normalize" /\ call.returned # <<>> /\ call.again = <<>>
    /\ call' = [call EXCEPT !.again = <<Normalize(call.prompt, call.returned[1])>>]
    /\ UNCHANGED session

PureNext == CallValidate \/ CallNormalize \/ CallNormalizeAgain

PureSpec == PureInit /\ [][PureNext]_vars

(***************************************************************************)
(* Properties.                                                             *)
(***************************************************************************)

\* The answers an acquisition can return at question k: a trimmed typed
\* line, or a normalized transcript.
PossibleAnswers(k) ==
    {Strip(l) : l \in TypedLines(questions[k].field_type)}
        \cup {Normalize(questions[k].question, t) : t \in Transcripts(questions[k].field_type)}

\* What create_profile stores at question k, for each answer _validate_input
\* accepts for the question's kind.
ValidatedValues ==
    [k \in 1..NumQuestions |->
        {Coerce(questions[k].field, a) :
            a \in {b \in PossibleAnswers(k) :
                     _validate_input(questions[k].field_type, b) = "True"}}]

\* The field of question k holds the value stored for a validated answer.
HoldsValidated(k) == profile[questions[k].field] \in ValidatedValues[k]

\* The field of question k is as __init__ left it.
HoldsInitial(k) == profile[questions[k].field] = InitialProfile[questions[k].field]

\* C1: an answer that fails _validate_input never advances the wizard: the
\* step that handles such an answer leaves the question index and the record
\* as they were, and as long as the wizard is on question k, however many
\* answers were rejected, the field of question k holds its initial value.
C1_InvalidNeverAdvances ==
    /\ [](qi <= NumQuestions => HoldsInitial(qi))
    /\ [][(pc = "validate" /\ exc = "none"
             /\ _validate_input(Current.field_type, answer) # "True")
          => (qi' = qi /\ profile' = profile)]_vars

\* C1 witness: the skills question is being asked for at least the third
\* time, the last answer was rejected, and skills is still [].
C1_Witness ==
    /\ qi = 6 /\ retry_cause = "invalid" /\ tries >= 3
    /\ profile.skills = List(<<>>)

\* C2: each of the eight answer fields holds its initial value or the value
\* stored for an answer _validate_input accepted for the field's kind, and a
\* field is only ever written by the step that validated the current answer
\* as true, with the value coerced from that answer.
C2_FieldsOnlyFromValidated ==
    /\ [](\A k \in 1..NumQuestions : HoldsInitial(k) \/ HoldsValidated(k))
    /\ [][\A f \in AnswerFields :
            profile'[f] # profile[f] =>
                /\ pc = "validate" /\ f = Current.field
                /\ _validate_input(Current.field_type, answer) = "True"
                /\ profile'[f] = Coerce(f, answer)]_vars

\* C2 witness: some fields are written, after an answer to the phone
\* question was rejected, and the rejected answer left phone unwritten.
C2_Witness ==
    /\ qi = 4 /\ retry_cause = "invalid"
    /\ profile.name # None /\ profile.age = IntVal(7) /\ profile.phone = None

\* C3: created_at is set once, and only after all eight questions hold a
\* validated answer; once set it never changes.
C3_CreatedAtOnceAfterAll ==
    /\ [](stamps <= 1)
    /\ [](profile.created_at # None =>
            /\ stamps = 1 /\ qi = NumQuestions + 1
            /\ \A k \in 1..NumQuestions : ~HoldsInitial(k) /\ HoldsValidated(k))
    /\ [][profile.created_at # None => profile'.created_at = profile.created_at]_vars

\* C3 witness: the session is over and created_at is set.
C3_Witness == pc = "done" /\ profile.created_at # None /\ stamps = 1

\* C4 as stated: while the wizard stays on one question, at most 3 listen
\* attempts are made in all.
C4_AtMostThreeListensPerQuestion == use_voice => qlistens <= retries

\* C4 as amended: one call of get_voice_input makes at most 3 listen attempts
\* and none after they are used up; more than 3 listen attempts on one
\* question happen only after the question was asked again.
C4_BudgetPerCall ==
    /\ listens <= retries
    /\ (pc \in {"listen", "recognize", "confirm"} => attempt < retries)
    /\ (listens = retries /\ pc \in InQuestionLoop =>
          pc \in {"recognize", "confirm", "fallback", "validate"})
    /\ (qlistens > retries => tries > 1)

\* C4 witness: a fourth listen attempt on a question that was asked again.
C4_Witness == use_voice /\ qlistens > retries /\ tries > 1 /\ listens <= retries

\* C5: get_voice_input returns a transcript only on an affirmative reply to
\* the confirmation of that transcript; anything else it returns is the line
\* get_text_input read; a declined transcript is not returned.
C5_TranscriptOnlyWhenConfirmed ==
    /\ [](pc = "validate" /\ use_voice =>
            \/ answer_from = "voice" /\ Affirmative(reply) /\ answer = result
            \/ answer_from = "text" /\ answer = Strip(line) /\ reads = 1)
    /\ [][(use_voice /\ pc # "validate" /\ pc' = "validate") =>
            \/ /\ pc = "confirm" /\ Affirmative(reply')
               /\ answer' = result /\ answer_from' = "voice"
            \/ /\ pc = "fallback" /\ answer' = Strip(line') /\ answer_from' = "text"]_vars
    /\ [][(pc = "confirm" /\ exc = "none" /\ exc' = "none" /\ ~Affirmative(reply'))
            => pc' # "validate"]_vars

\* C5 witness: a transcript was declined, the next one confirmed and returned.
C5_Witness ==
    /\ pc = "validate" /\ answer_from = "voice" /\ attempt > 0
    /\ Affirmative(reply) /\ answer = result

\* C6: after a RequestError the call of get_voice_input makes no further
\* listen attempt, reads one line through get_text_input and returns it.
C6_ServiceErrorFallsBackAtOnce ==
    /\ [](svc_error =>
            /\ pc \notin {"listen", "recognize", "confirm"}
            /\ reads <= 1
            /\ (pc = "fallback" => reads = 0)
            /\ (pc = "validate" =>
                  reads = 1 /\ answer_from = "text" /\ answer = Strip(line)))
    /\ [][svc_error /\ svc_error' => listens' = listens]_vars
    /\ [][~svc_error /\ svc_error' =>
            pc = "recognize" /\ pc' = "fallback" /\ listens' = listens]_vars

\* C6 witness: a RequestError on the first attempt, with two retries left,
\* and the line read in its place is returned.
C6_Witness ==
    /\ svc_error /\ pc = "validate" /\ listens = 1 /\ attempt = 0
    /\ reads = 1 /\ answer = Strip(line)

\* C7: in one call of get_voice_input an attempt that ends in a timeout, an
\* unintelligible result or a declined confirmation consumes one retry and is
\* followed by another attempt while retries remain; after 3 such attempts
\* the call reads one line through get_text_input and returns it.
C7_RetriesThenOneTextRead ==
    /\ [](use_voice /\ ~svc_error =>
            /\ (pc = "listen" => listens = attempt /\ attempt < retries)
            /\ (pc \in {"recognize", "confirm"} =>
                  listens = attempt + 1 /\ attempt < retries)
            /\ (pc = "fallback" => listens = retries /\ attempt = retries /\ reads = 0)
            /\ (pc = "validate" /\ answer_from = "text" =>
                  listens = retries /\ reads = 1))
    /\ [](reads <= 1)
    /\ [][(pc \in {"listen", "recognize", "confirm"} /\ exc = "none" /\ exc' = "none"
             /\ pc' \in {"listen", "fallback"} /\ ~svc_error')
          => /\ attempt' = attempt + 1
             /\ pc' = IF attempt' < retries THEN "listen" ELSE "fallback"]_vars

\* C7 witness: three attempts without a confirmed transcript, then the line
\* read through get_text_input is returned.
C7_Witness ==
    /\ use_voice /\ ~svc_error /\ pc = "validate"
    /\ listens = retries /\ reads = 1 /\ answer_from = "text"
    /\ ~Affirmative(reply)

\* C8: an exception other than KeyboardInterrupt raised inside the question
\* loop is caught there: the session does not end, the same question is asked
\* again and the record is unchanged.
C8_ErrorsRetryTheQuestion ==
    [][(exc \in Exceptions /\ pc \in InQuestionLoop) =>
        /\ exc' = "none"
        /\ qi' = qi /\ profile' = profile
        /\ pc' = (IF use_voice THEN "listen" ELSE "text")
        /\ notice' = "none" /\ retry_cause' = "error"]_vars

\* C8 witness: the age question is asked again after an exception was caught
\* in the loop; age is still None and name is kept.
C8_Witness ==
    /\ qi = 2 /\ retry_cause = "error" /\ pc \in {"listen", "text"}
    /\ profile.age = None /\ profile.name # None

\* C9: the record is written at most once, only with all eight answers
\* validated and created_at stamped; a session interrupted before the write
\* leaves storage as it found it (nothing of this session's record is
\* stored) and ends with the cancellation notice.
C9_OnlyTheFinishedRecordIsSaved ==
    /\ [](saves <= 1)
    /\ [](saves = 0 => file \in InitialFiles)
    /\ [][saves' = 0 => file' = file]_vars
    /\ [](saves = 1 =>
            /\ profile.created_at # None
            /\ \A k \in 1..NumQuestions : HoldsValidated(k))
    /\ [](file.t = "json" /\ file # Json(EarlierProfile) =>
            saves = 1 /\ file.v = profile)
    /\ [](pc = "cancelled" => notice = "cancelled")

\* C9 witness: a session interrupted with five answers collected; the file
\* still holds the record of the earlier session.
C9_Witness ==
    /\ pc = "cancelled" /\ notice = "cancelled" /\ qi = 6 /\ saves = 0
    /\ profile.occupation # None /\ file = Json(EarlierProfile)

\* C10: when save_profile raises, main reports the error and the session
\* ends: no second write, no question asked again, no summary displayed.
C10_SaveFailureEndsSession ==
    /\ [][(pc \in {"save", "write"} /\ exc = "OSError") =>
            /\ pc' = "failed" /\ notice' = "error" /\ exc' = "none"
            /\ saves' = saves /\ qi' = qi /\ ~displayed']_vars
    /\ [][pc = "failed" => UNCHANGED vars]_vars
    /\ [](pc = "failed" /\ saves = 1 =>
            notice = "error" /\ ~displayed /\ file \in InitialFiles \cup {Truncated})

\* C10 witness: the write failed and the session ended with the error notice.
C10_Witness ==
    /\ pc = "failed" /\ saves = 1 /\ notice = "error" /\ ~displayed
    /\ file = Truncated /\ profile.created_at # None

\* C11 as stated: a populated phone field is a string of exactly 10 digit
\* characters.
C11_PhoneIsTenDigits ==
    profile.phone # None =>
        /\ profile.phone.t = "str"
        /\ Len(profile.phone.v) = 10
        /\ \A i \in 1..Len(profile.phone.v) : profile.phone.v[i] \in Digits

\* The order of the questions the claim C15 names.
FieldOrder ==
    <<"name", "age", "email", "phone", "occupation", "skills", "education", "location">>

\* C15: the questions are resolved in the order name, age, email, phone,
\* occupation, skills, education, location: the populated fields are exactly
\* those of the questions before the current one, and the question index
\* never goes back (nor skips a question).
C15_QuestionsInOrder ==
    /\ [](\A k \in 1..NumQuestions :
            /\ questions[k].field = FieldOrder[k]
            /\ (k < qi <=> ~HoldsInitial(k)))
    /\ [][qi' = qi \/ qi' = qi + 1]_vars

\* C15 witness: the occupation question is asked again; the four fields
\* before it are populated and none after it.
C15_Witness ==
    /\ qi = 5 /\ tries > 1
    /\ \A k \in 1..4 : ~HoldsInitial(k)
    /\ \A k \in 5..NumQuestions : HoldsInitial(k)

\* C16: the mode is chosen once: use_voice never changes after line 127, a
\* text-mode session never listens, and in a voice-mode session every
\* acquisition, also one that follows a fallback to text entry, starts with
\* the first voice attempt.
C16_ModeChosenOnce ==
    /\ [][pc # "mode" => use_voice' = use_voice]_vars
    /\ [](~use_voice =>
            pc \notin {"listen", "recognize", "confirm", "fallback"}
              /\ listens = 0 /\ qlistens = 0)
    /\ [](use_voice => pc # "text")
    /\ [][(use_voice /\ pc \in InQuestionLoop /\ pc' \in InQuestionLoop
             /\ (pc = "validate" \/ exc \in Exceptions) /\ exc' = "none")
          => pc' = "listen" /\ attempt' = 0 /\ listens' = 0]_vars

\* C16 witness: in a voice-mode session the phone question was answered by a
\* line typed after a fallback (no transcript gives that value), and the next
\* question starts with a voice attempt.
C16_Witness ==
    /\ use_voice /\ qi = 5 /\ pc = "listen" /\ attempt = 0
    /\ profile.phone = Str(<<"5", "5", "5", "-", "1", "2", "3", " ", "4", "5", "6", "7">>)

\* s has no leading and no trailing whitespace.
Trimmed(s) == Len(s) = 0 \/ (s[1] \notin Whitespace /\ s[Len(s)] \notin Whitespace)

\* C18 as stated: a populated age is an integer in 0..99, a populated skills
\* a list of non-empty strings without surrounding whitespace, and any other
\* populated field a string without surrounding whitespace.
C18_StoredShapes ==
    \A k \in 1..NumQuestions :
        ~HoldsInitial(k) =>
            LET f == questions[k].field
                stored == profile[f]
            IN  IF f = "age" THEN stored.t = "int" /\ stored.v \in 0..99
                ELSE IF f = "skills"
                THEN /\ stored.t = "list"
                     /\ \A i \in 1..Len(stored.v) :
                            Len(stored.v[i]) > 0 /\ Trimmed(stored.v[i])
                ELSE stored.t = "str" /\ Trimmed(stored.v)

\* C17: a text-mode session in which the user eventually types a valid
\* answer to every question ends; unless it is interrupted or the write
\* fails it ends after the stamp, one write and the display, in this order.
\* The stamp is never reached while a question lacks a validated answer, and
\* a rejected answer always leads back to the same question, however often
\* the question was asked before.
C17_TextSessionCompletes ==
    /\ (pc = "text" ~> pc \in Ended)
    /\ [](pc = "done" =>
            stamps = 1 /\ saves = 1 /\ displayed /\ file = Json(profile))
    /\ [](saves > 0 => stamps = 1)
    /\ [](displayed => saves = 1 /\ file = Json(profile))
    /\ [](pc \in {"stamp", "save", "write", "display", "done"} \/ stamps > 0 =>
            \A k \in 1..NumQuestions : HoldsValidated(k))
    /\ [](pc = "failed" /\ qi <= NumQuestions => qi = 1 /\ tries = 1)
    /\ [][(pc = "validate" /\ exc = "none" /\ pc' # "cancelled"
             /\ _validate_input(Current.field_type, answer) = "False")
          => pc' = "text" /\ qi' = qi]_vars

\* C17 witness: a text-mode session ended after stamp, write and display.
C17_Witness ==
    /\ ~use_voice /\ pc = "done" /\ stamps = 1 /\ saves = 1 /\ displayed
    /\ file = Json(profile) /\ profile.created_at # None

(***************************************************************************)
(* The validator and the rewriting on their own (PureSpec).                *)
(***************************************************************************)

\* A call of _validate_input that has returned / of the rewriting at
\* question k that has produced its result.
Validated == call.fn = "_validate_input" /\ call.returned # <<>>
Rewritten(k) ==
    call.fn = "normalize" /\ call.prompt = questions[k].question /\ call.returned # <<>>

\* C12: the skills rewriting is idempotent: applied to its own output it
\* gives that output again.
C12_SkillsIdempotent ==
    Rewritten(SkillsQuestion) /\ call.again # <<>> => call.again = call.returned

KnownKinds == {"text", "number", "email", "phone", "list"}

Blank(value) == \A i \in 1..Len(value) : value[i] \in Whitespace

\* C13: an empty or whitespace-only value is rejected for every kind, known
\* or not; for a kind that is not known every other value is accepted.
C13_BlankRejectedUnknownAccepted ==
    Validated =>
        /\ Blank(call.value) => call.returned = <<"False">>
        /\ ~Blank(call.value) /\ call.field_type \notin KnownKinds
              => call.returned = <<"True">>

C13_Witness ==
    /\ Validated /\ call.field_type = "date"
    /\ call.value = <<" ", "a">> /\ call.returned = <<"True">>

\* C14 as stated: for the kind number the validator returns true exactly
\* when the trimmed value is made of decimal digits only (of any script) and
\* its value is between 0 and 99, that is, every digit before the last two
\* is a zero; '007' is accepted, '100' and '12a' are not.
C14_NumberIffDigitsInRange ==
    Validated /\ call.field_type = "number" =>
        LET x == Strip(call.value)
            digitsOnly == Len(x) > 0 /\ \A i \in 1..Len(x) : x[i] \in DecimalDigits
            inRange == \A i \in 1..(Len(x) - 2) : DigitValue(x[i]) = 0
        IN  /\ call.returned = <<"True">> <=> digitsOnly /\ inRange
            /\ call.value = <<"0", "0", "7">> => call.returned = <<"True">>
            /\ call.value \in {<<"1", "0", "0">>, <<"1", "2", "a">>}
                  => call.returned = <<"False">>

\* C14: for the kind number the validator returns true exactly when the
\* trimmed value is made of decimal digits only (of any script), of at most
\* IntMaxStrDigits of them, and its value is between 0 and 99, that is,
\* every digit before the last two is a zero; '007' is accepted, '100' and
\* '12a' are not. On a longer run of digits the validator raises ValueError.
C14_NumberIffFewDigitsInRange ==
    Validated /\ call.field_type = "number" =>
        LET x == Strip(call.value)
            digitsOnly == Len(x) > 0 /\ \A i \in 1..Len(x) : x[i] \in DecimalDigits
            inRange == \A i \in 1..(Len(x) - 2) : DigitValue(x[i]) = 0
        IN  /\ call.returned = <<"True">>
                  <=> digitsOnly /\ Len(x) <= IntMaxStrDigits /\ inRange
            /\ digitsOnly /\ Len(x) > IntMaxStrDigits
                  => call.returned = <<"ValueError">>
            /\ call.value = <<"0", "0", "7">> => call.returned = <<"True">>
            /\ call.value \in {<<"1", "0", "0">>, <<"1", "2", "a">>}
                  => call.returned = <<"False">>

C14_Witness ==
    /\ Validated /\ call.field_type = "number"
    /\ Len(call.value) = IntMaxStrDigits /\ call.returned = <<"True">>

\* C19 as stated: at the age question the rewriting returns exactly the
\* digit characters of the transcript, in their order, and so the empty
\* string when the transcript has no digit.
C19_AgeKeepsOnlyDigits ==
    Rewritten(AgeQuestion) => call.returned[1] = SelectSeq(call.transcript, IsDigitChar)

\* C19: at the age question the rewriting returns the digit characters of
\* the transcript, in their order, when there is at least one; a transcript
\* without a digit comes back whole, lower-cased, and the number validator
\* rejects it.
C19_DigitsElseLowered ==
    Rewritten(AgeQuestion) =>
        LET digits == SelectSeq(call.transcript, IsDigitChar)
        IN  IF digits # <<>>
            THEN call.returned[1] = digits
            ELSE /\ call.returned[1] = Lower(call.transcript)
                 /\ _validate_input("number", call.returned[1]) = "False"

C19_Witness ==
    /\ Rewritten(AgeQuestion)
    /\ call.transcript = <<"I", " ", "a", "m">>
    /\ call.returned = << <<"i", " ", "a", "m">> >>

\* C20: at the email question a transcript 'L at rate D' comes back as
\* 'L@D', with one '@' and nothing left of 'rate'.
C20_AtRateGivesOneAt ==
    Rewritten(EmailQuestion) =>
        \A l, d \in {<<"a">>, <<"c", "o">>} :
            call.transcript = l \o <<" ", "a", "t", " ", "r", "a", "t", "e", " ">> \o d
                => call.returned[1] = l \o <<"@">> \o d

====
